---- MODULE Spec2Model ----
(***************************************************************************)
(* Payment reconciliation engine of the payment-system backend:            *)
(* payment creation (deposit, withdrawal, payment link), manual UTR        *)
(* verification, decline, customer UTR submission and bank-statement       *)
(* matching, over a store shared by concurrent request handlers.           *)
(*                                                                         *)
(* Every request handler runs in its own ORM session.  A handler that      *)
(* reads a row, mutates the loaded object and commits is two steps: the    *)
(* SELECT, and the flush that writes the attributes the handler changed    *)
(* (relative to the values it loaded) by primary key.                      *)
(***************************************************************************)
EXTENDS Integers, Sequences, FiniteSets, TLC

\* ---------------------------------------------------------------- bounds
MaxPayments == 2
MaxLinks == 1
NProcs == 2
MaxConsumes == 3       \* payments through payment links, where the use cap is studied
MaxTime == 3           \* the clock runs from 1 to MaxTime
MaxLines == 2          \* lines of a free-text statement

Procs == 1..NProcs

\* ------------------------------------------------------------- constants
None == "None"
NoAmount == 0          \* a null / absent integer (falsy in the source's truth tests)
NoLink == 0

PENDING == "PENDING"
CONFIRMED == "CONFIRMED"
DECLINED == "DECLINED"
EXPIRED == "EXPIRED"
PaymentStatus == {PENDING, CONFIRMED, DECLINED, EXPIRED}

DEPOSIT == "DEPOSIT"
WITHDRAWAL == "WITHDRAWAL"
PaymentType == {DEPOSIT, WITHDRAWAL}

UPI == "UPI"
BANK_TRANSFER == "BANK_TRANSFER"
PaymentMethod == {UPI, BANK_TRANSFER}

\* hard-coded limits of the request schema
SchemaMinDeposit == 500
SchemaMaxDeposit == 300000
SchemaMinWithdrawal == 1000
SchemaMaxWithdrawal == 1000000

CustomerRemark == "UTR number submitted by customer, awaiting verification"

\* ---------------------------------------------------------------- inputs
Merchants == {"m1", "m2", "m3"}
Refs == {<<"r1">>, <<"r2">>}
Utrs == {"U1", "U2"}
AdminRemarks == {"R1"}
Tokens == {"t1", "t2"}
Codes == {"L1", "L2", "L3"}

\* the admin / user on whose behalf handler slot p runs
UserOf(p) == <<"a1", "a2", "a3", "a4">>[p]

\* merchant settings (read-only for the core): the column defaults, a wider
\* range without bank details and without a callback URL, and a narrower
\* range without UPI details
MerchantTable ==
    [m \in Merchants |->
        CASE m = "m1" -> [min_deposit |-> 500, max_deposit |-> 300000,
                          min_withdrawal |-> 1000, max_withdrawal |-> 1000000,
                          upi_details |-> TRUE, bank_details |-> TRUE,
                          callback_url |-> TRUE]
          [] m = "m2" -> [min_deposit |-> 100, max_deposit |-> 400000,
                          min_withdrawal |-> 500, max_withdrawal |-> 2000000,
                          upi_details |-> TRUE, bank_details |-> FALSE,
                          callback_url |-> FALSE]
          [] OTHER    -> [min_deposit |-> 1000, max_deposit |-> 5000,
                          min_withdrawal |-> 2000, max_withdrawal |-> 10000,
                          upi_details |-> FALSE, bank_details |-> TRUE,
                          callback_url |-> TRUE]]

\* amounts at and just outside a merchant's bounds
DepositAmounts(m) ==
    {MerchantTable[m].min_deposit - 1, MerchantTable[m].min_deposit,
     MerchantTable[m].max_deposit, MerchantTable[m].max_deposit + 1}
WithdrawalAmounts(m) ==
    {MerchantTable[m].min_withdrawal - 1, MerchantTable[m].min_withdrawal,
     MerchantTable[m].max_withdrawal, MerchantTable[m].max_withdrawal + 1}

\* bank fields of a creation request: none, only `bank`, or all four
BankInfos == {"none", "partial", "full"}

\* ----------------------------------------------------------------- state
VARIABLES payments, links, now, pc, ctx, resp

vars == <<payments, links, now, pc, ctx, resp>>

PaymentIds == 1..MaxPayments

NoResp == [op |-> None, id |-> 0, http |-> 0, svc |-> None, log |-> None, data |-> <<>>]
NoRow == [status |-> None]
IdleCtx == [op |-> None, entry |-> None, id |-> 0, snap |-> NoRow, new |-> NoRow,
            remarks |-> None, utr |-> None, info |-> <<>>]

Init ==
    /\ payments = <<>>
    /\ links = <<>>
    /\ now = 1
    /\ pc = [p \in Procs |-> "idle"]
    /\ ctx = [p \in Procs |-> IdleCtx]
    /\ resp = [p \in Procs |-> NoResp]

\* ------------------------------------------------------ identity generator
generate_transaction_hash(reference, merchant_id, amount) ==
    <<reference, merchant_id, amount>>

\* (mutant) the column without its unique constraint
NoUniqueConstraint(rows, key) == FALSE

\* the unique constraint on payment.trxn_hash_key: an INSERT of a row
\* with this key is rejected
UniqueHashViolated(rows, key) ==
    \E i \in DOMAIN rows : rows[i].trxn_hash_key = key

NewPayment(m, reference, ptype, method, amount, link_id) ==
    [merchant_id |-> m, reference |-> reference,
     trxn_hash_key |-> generate_transaction_hash(reference, m, amount),
     payment_type |-> ptype, payment_method |-> method, amount |-> amount,
     status |-> PENDING, utr_number |-> None, verified_by |-> None,
     verification_method |-> None, remarks |-> None,
     payment_link_id |-> link_id,
     callback_sent |-> FALSE, response_data |-> None]

\* ORM flush: UPDATE ... WHERE id = ? of the attributes whose value differs
\* from the one loaded into the session
Flush(snap, new, row) ==
    [f \in DOMAIN row |-> IF new[f] # snap[f] THEN new[f] ELSE row[f]]

Respond(p, r) ==
    /\ resp' = [resp EXCEPT ![p] = r]
    /\ pc' = [pc EXCEPT ![p] = "done"]
    /\ ctx' = [ctx EXCEPT ![p] = IdleCtx]

\* the handler's response is delivered; the slot serves the next request
Return(p) ==
    /\ pc[p] = "done"
    /\ pc' = [pc EXCEPT ![p] = "idle"]
    /\ resp' = [resp EXCEPT ![p] = NoResp]
    /\ UNCHANGED <<payments, links, now, ctx>>

\* --------------------------------------------------------------- creation
\* PaymentCreate.validate_amount
SchemaAmountOk(ptype, v) ==
    /\ ~(ptype = DEPOSIT /\ (v < SchemaMinDeposit \/ v > SchemaMaxDeposit))
    /\ ~(ptype = WITHDRAWAL /\ (v < SchemaMinWithdrawal \/ v > SchemaMaxWithdrawal))

\* PaymentProcessor.process_deposit_request: "ok", or the error raised
DepositMethod(bankinfo) == IF bankinfo = "full" THEN BANK_TRANSFER ELSE UPI

DepositCheck(m, amount, bankinfo) ==
    LET cfg == MerchantTable[m] IN
    IF amount < cfg.min_deposit \/ amount > cfg.max_deposit
        THEN "ValueError: amount out of range"
    ELSE IF DepositMethod(bankinfo) = UPI /\ ~cfg.upi_details
        THEN "ValueError: UPI details not configured"
    ELSE IF DepositMethod(bankinfo) = BANK_TRANSFER /\ ~cfg.bank_details
        THEN "ValueError: bank details not configured"
    ELSE "ok"

\* PaymentProcessor.process_withdrawal_request: "ok", or the error raised
WithdrawalCheck(m, amount, bankinfo) ==
    LET cfg == MerchantTable[m] IN
    IF amount < cfg.min_withdrawal \/ amount > cfg.max_withdrawal
        THEN "ValueError: amount out of range"
    ELSE IF bankinfo # "full"
        THEN "ValueError: bank details required"
    ELSE "ok"

\* the INSERT at commit: admitted, or rejected by the unique constraint
InsertPayment(p, op, row, okHttp) ==
    IF UniqueHashViolated(payments, row.trxn_hash_key)
    THEN /\ Respond(p, [op |-> op, id |-> 0, http |-> 500, svc |-> "IntegrityError",
                        log |-> None, data |-> <<>>])
         /\ UNCHANGED <<payments, links, now>>
    ELSE /\ Len(payments) < MaxPayments
         /\ payments' = Append(payments, row)
         /\ Respond(p, [op |-> op, id |-> Len(payments) + 1, http |-> okHttp, svc |-> "ok",
                        log |-> None, data |-> row.trxn_hash_key])
         /\ UNCHANGED <<links, now>>

\* (mutant) the processor adds and commits the row before it validates
create_payment_request_addfirst(p, m, action, reference, amount, bankinfo) ==
    /\ pc[p] = "idle"
    /\ Len(payments) < MaxPayments
    /\ LET check == IF action = DEPOSIT THEN DepositCheck(m, amount, bankinfo)
                    ELSE WithdrawalCheck(m, amount, bankinfo)
           method == IF action = DEPOSIT THEN DepositMethod(bankinfo) ELSE BANK_TRANSFER
           row == NewPayment(m, reference, action, method, amount, NoLink)
       IN
       IF ~SchemaAmountOk(action, amount)
       THEN /\ Respond(p, [op |-> "create", id |-> 0, http |-> 400, svc |-> "ValidationError",
                           log |-> None, data |-> <<>>])
            /\ UNCHANGED <<payments, links, now>>
       ELSE IF check # "ok"
       THEN /\ ~UniqueHashViolated(payments, row.trxn_hash_key)
            /\ payments' = Append(payments, row)
            /\ Respond(p, [op |-> "create", id |-> 0, http |-> 400, svc |-> check,
                           log |-> None, data |-> <<>>])
            /\ UNCHANGED <<links, now>>
       ELSE InsertPayment(p, "create", row, 201)

\* create_payment_request: schema validation, then the processor
create_payment_request(p, m, action, reference, amount, bankinfo) ==
    /\ pc[p] = "idle"
    /\ LET check == IF action = DEPOSIT THEN DepositCheck(m, amount, bankinfo)
                    ELSE WithdrawalCheck(m, amount, bankinfo)
           method == IF action = DEPOSIT THEN DepositMethod(bankinfo) ELSE BANK_TRANSFER
       IN
       IF ~SchemaAmountOk(action, amount)
       THEN /\ Respond(p, [op |-> "create", id |-> 0, http |-> 400, svc |-> "ValidationError",
                           log |-> None, data |-> <<>>])
            /\ UNCHANGED <<payments, links, now>>
       ELSE IF check # "ok"
       THEN /\ Respond(p, [op |-> "create", id |-> 0, http |-> 400, svc |-> check,
                           log |-> None, data |-> <<>>])
            /\ UNCHANGED <<payments, links, now>>
       ELSE InsertPayment(p, "create", NewPayment(m, reference, action, method, amount, NoLink), 201)

\* ---------------------------------------------------------- reconciliation
Reject(p, op, id, http, svc, log) ==
    /\ Respond(p, [op |-> op, id |-> id, http |-> http, svc |-> svc, log |-> log, data |-> <<>>])
    /\ UNCHANGED <<payments, links, now>>

Accept(p, op, id, http) ==
    Respond(p, [op |-> op, id |-> id, http |-> http, svc |-> "ok", log |-> None, data |-> <<>>])

Load(p, op, entry, id, new, remarks) ==
    /\ pc' = [pc EXCEPT ![p] = "commit"]
    /\ ctx' = [ctx EXCEPT ![p] = [IdleCtx EXCEPT !.op = op, !.entry = entry, !.id = id,
                                   !.snap = payments[id], !.new = new, !.remarks = remarks]]
    /\ UNCHANGED <<payments, links, now, resp>>

\* what the two endpoints answer when verify_utr returns None: the admin
\* endpoint raises 404; the payments endpoint raises 404 inside its own
\* try block, whose handler turns every exception into a 500
NoneHttp(entry) == IF entry = "payments" THEN 500 ELSE 404

\* (mutant) verify_utr without its status check
verify_utr_read_unchecked(p, entry, id, utr, remarks) ==
    /\ pc[p] = "idle"
    /\ IF id \notin DOMAIN payments
       THEN Reject(p, "verify_utr", id, NoneHttp(entry), "None", "not found")
       ELSE Load(p, "verify_utr", entry, id,
                 [payments[id] EXCEPT !.utr_number = utr, !.status = CONFIRMED,
                                      !.verified_by = UserOf(p),
                                      !.verification_method = "MANUAL"],
                 remarks)

\* UTRVerifier.verify_utr, up to its commit, called by verify_payment_with_utr
\* (entry "payments") or admin_verify_payment (entry "admin")
verify_utr_read(p, entry, id, utr, remarks) ==
    /\ pc[p] = "idle"
    /\ IF id \notin DOMAIN payments
       THEN Reject(p, "verify_utr", id, NoneHttp(entry), "None", "not found")
       ELSE IF payments[id].status # PENDING
       THEN Reject(p, "verify_utr", id, NoneHttp(entry), "None", "already processed")
       ELSE Load(p, "verify_utr", entry, id,
                 [payments[id] EXCEPT !.utr_number = utr, !.status = CONFIRMED,
                                      !.verified_by = UserOf(p),
                                      !.verification_method = "MANUAL"],
                 remarks)

\* PaymentProcessor.verify_payment, up to its commit
verify_payment_read(p, id, utr) ==
    /\ pc[p] = "idle"
    /\ IF id \notin DOMAIN payments
       THEN Reject(p, "verify_payment", id, 0, "ValueError: not found", None)
       ELSE IF payments[id].status # PENDING
       THEN Reject(p, "verify_payment", id, 0, "ValueError: already processed", None)
       ELSE Load(p, "verify_payment", "service", id,
                 [payments[id] EXCEPT !.utr_number = utr, !.verified_by = UserOf(p),
                                      !.status = CONFIRMED,
                                      !.verification_method = "MANUAL"],
                 None)

\* PaymentProcessor.decline_payment, up to its commit, called by
\* admin_decline_payment, which lets the ValueError escape (500)
decline_payment_read(p, id, remarks) ==
    /\ pc[p] = "idle"
    /\ IF id \notin DOMAIN payments
       THEN Reject(p, "decline_payment", id, 500, "ValueError: not found", None)
       ELSE IF payments[id].status # PENDING
       THEN Reject(p, "decline_payment", id, 500, "ValueError: already processed", None)
       ELSE Load(p, "decline_payment", "admin", id,
                 [payments[id] EXCEPT !.status = DECLINED, !.remarks = remarks,
                                      !.verified_by = UserOf(p)],
                 None)

\* (mutant) the UTR is stored whatever the payment's status
submit_utr_read_unchecked(p, id, utr) ==
    /\ pc[p] = "idle"
    /\ IF id \notin DOMAIN payments
       THEN Reject(p, "submit_utr", id, 400, "ValueError: not found", None)
       ELSE Load(p, "submit_utr", "public", id,
                 [payments[id] EXCEPT !.utr_number = utr, !.remarks = CustomerRemark],
                 None)

\* PaymentLinkService.submit_utr_for_payment, up to its commit, called by submit_utr
submit_utr_read(p, id, utr) ==
    /\ pc[p] = "idle"
    /\ IF id \notin DOMAIN payments
       THEN Reject(p, "submit_utr", id, 400, "ValueError: not found", None)
       ELSE IF payments[id].status # PENDING
       THEN Reject(p, "submit_utr", id, 400, "ValueError: already processed", None)
       ELSE Load(p, "submit_utr", "public", id,
                 [payments[id] EXCEPT !.utr_number = utr, !.remarks = CustomerRemark],
                 None)

OkHttp(op) == IF op = "verify_payment" THEN 0 ELSE 200

\* db.commit() and db.refresh() of the four operations above; the admin
\* endpoint goes on to store the remarks it was given, and
\* verify_payment_with_utr answers and leaves send_callback_notification to
\* run as a background task on the refreshed payment
Commit(p) ==
    /\ pc[p] = "commit"
    /\ LET c == ctx[p]
           row == Flush(c.snap, c.new, payments[c.id])
       IN
       /\ payments' = [payments EXCEPT ![c.id] = row]
       /\ IF c.op = "verify_utr" /\ c.entry = "admin" /\ c.remarks # None
          THEN /\ pc' = [pc EXCEPT ![p] = "admin_remarks"]
               /\ ctx' = [ctx EXCEPT ![p] = [c EXCEPT !.snap = row,
                                                    !.new = [row EXCEPT !.remarks = c.remarks]]]
               /\ UNCHANGED resp
          ELSE IF c.op = "verify_utr" /\ c.entry = "payments"
          THEN /\ pc' = [pc EXCEPT ![p] = "callback"]
               /\ ctx' = [ctx EXCEPT ![p] = [c EXCEPT !.snap = row, !.new = row]]
               /\ resp' = [resp EXCEPT ![p] = [op |-> c.op, id |-> c.id, http |-> 200,
                                               svc |-> "ok", log |-> None, data |-> <<>>]]
          ELSE Accept(p, c.op, c.id, OkHttp(c.op))
    /\ UNCHANGED <<links, now>>

\* what the merchant's callback URL does with the POST
CallbackOutcomes == {"callback_status 200", "callback_status 503", "callback_error"}

\* (mutant) a failed callback puts the payment back to PENDING
send_callback_notification_undo(p, outcome) ==
    /\ pc[p] = "callback"
    /\ LET c == ctx[p]
           new == IF ~MerchantTable[c.snap.merchant_id].callback_url THEN c.snap
                  ELSE IF outcome = "callback_error"
                  THEN [c.snap EXCEPT !.response_data = outcome, !.status = PENDING]
                  ELSE [c.snap EXCEPT !.callback_sent = TRUE, !.response_data = outcome]
       IN payments' = [payments EXCEPT ![c.id] = Flush(c.snap, new, @)]
    /\ pc' = [pc EXCEPT ![p] = "done"]
    /\ ctx' = [ctx EXCEPT ![p] = IdleCtx]
    /\ UNCHANGED <<links, now, resp>>

\* send_callback_notification, the background task of verify_payment_with_utr:
\* skipped without a callback URL; otherwise the POST is answered (any
\* status) and callback_sent and response_data are committed, or it raises
\* and response_data alone is committed
send_callback_notification(p, outcome) ==
    /\ pc[p] = "callback"
    /\ LET c == ctx[p]
           new == IF ~MerchantTable[c.snap.merchant_id].callback_url THEN c.snap
                  ELSE IF outcome = "callback_error"
                  THEN [c.snap EXCEPT !.response_data = outcome]
                  ELSE [c.snap EXCEPT !.callback_sent = TRUE, !.response_data = outcome]
       IN payments' = [payments EXCEPT ![c.id] = Flush(c.snap, new, @)]
    /\ pc' = [pc EXCEPT ![p] = "done"]
    /\ ctx' = [ctx EXCEPT ![p] = IdleCtx]
    /\ UNCHANGED <<links, now, resp>>

\* admin_verify_payment: payment.remarks = remarks; commit
admin_remarks_commit(p) ==
    /\ pc[p] = "admin_remarks"
    /\ LET c == ctx[p] IN
       /\ payments' = [payments EXCEPT ![c.id] = Flush(c.snap, c.new, @)]
       /\ Accept(p, c.op, c.id, 200)
    /\ UNCHANGED <<links, now>>

\* ------------------------------------------------------------ payment links
NewLink(m, code, amount, ptype, expires_at, max_uses) ==
    [merchant_id |-> m, unique_code |-> code, amount |-> amount, payment_type |-> ptype,
     is_active |-> TRUE, expires_at |-> expires_at, max_uses |-> max_uses, used_count |-> 0]

\* create_payment_link / PaymentLinkService.create_payment_link, with a code
\* that _generate_unique_code found unused
create_payment_link(p, m, code, amount, ptype, expires_at, max_uses) ==
    /\ pc[p] = "idle"
    /\ Len(links) < MaxLinks
    /\ \A i \in DOMAIN links : links[i].unique_code # code
    /\ links' = Append(links, NewLink(m, code, amount, ptype, expires_at, max_uses))
    /\ Respond(p, [op |-> "create_link", id |-> Len(links) + 1, http |-> 200, svc |-> "ok",
                   log |-> None, data |-> <<>>])
    /\ UNCHANGED <<payments, now>>

\* (mutant) the use cap is tested before the expiry
validate_payment_link_cap_first(link, t) ==
    IF ~link.is_active THEN "inactive"
    ELSE IF link.max_uses # 0 /\ link.used_count >= link.max_uses THEN "usage limit"
    ELSE IF link.expires_at # 0 /\ link.expires_at < t THEN "expired"
    ELSE "ok"

\* PaymentLinkService.validate_payment_link: "ok" or the first failing check
validate_payment_link(link, t) ==
    IF ~link.is_active THEN "inactive"
    ELSE IF link.expires_at # 0 /\ link.expires_at < t THEN "expired"
    ELSE IF link.max_uses # 0 /\ link.used_count >= link.max_uses THEN "usage limit"
    ELSE "ok"

\* PaymentLinkService.process_payment, the amount the payment is created with
EffectiveAmount(link, custom_amount) ==
    IF custom_amount # NoAmount THEN custom_amount ELSE link.amount

\* PaymentLinkService.process_payment, the checks before the row is built
LinkPaymentCheck(link, custom_amount, method) ==
    LET cfg == MerchantTable[link.merchant_id]
        amount == EffectiveAmount(link, custom_amount)
    IN
    IF amount = NoAmount THEN "ValueError: amount required"
    ELSE IF cfg.min_deposit # 0 /\ amount < cfg.min_deposit THEN "ValueError: amount too small"
    ELSE IF cfg.max_deposit # 0 /\ amount > cfg.max_deposit THEN "ValueError: amount too large"
    ELSE IF method = UPI /\ ~cfg.upi_details THEN "ValueError: UPI details not configured"
    ELSE IF method = BANK_TRANSFER /\ ~cfg.bank_details
        THEN "ValueError: bank details not configured"
    ELSE "ok"

LinkByCode(code) ==
    {i \in DOMAIN links : links[i].unique_code = code /\ links[i].is_active}

\* process_public_payment up to the commit of process_payment: the link is
\* loaded and validated, the payment row is built from the loaded link
process_public_payment_read(p, code, custom_amount, method, utr, token) ==
    /\ pc[p] = "idle"
    /\ IF LinkByCode(code) = {}
       THEN Reject(p, "consume", 0, 404, "link not found", None)
       ELSE LET id == CHOOSE i \in LinkByCode(code) : TRUE
                link == links[id]
                valid == validate_payment_link(link, now)
                check == LinkPaymentCheck(link, custom_amount, method)
            IN
            IF valid # "ok" THEN Reject(p, "consume", id, 400, valid, None)
            ELSE IF check # "ok" THEN Reject(p, "consume", id, 400, check, None)
            ELSE /\ pc' = [pc EXCEPT ![p] = "consume_commit"]
                 /\ ctx' = [ctx EXCEPT ![p] =
                       [IdleCtx EXCEPT !.op = "consume", !.entry = "public", !.id = id,
                                       !.snap = link, !.utr = utr,
                                       !.new = NewPayment(link.merchant_id,
                                                          <<"PLINK", link.unique_code, token>>,
                                                          link.payment_type, method,
                                                          EffectiveAmount(link, custom_amount),
                                                          id)]]
                 /\ UNCHANGED <<payments, links, now, resp>>

\* process_payment's commit: the payment INSERT and the link's used_count
\* UPDATE (loaded value + 1) in one transaction; then, if the customer gave a
\* UTR, submit_utr_for_payment on the row just refreshed.  The payment table
\* holds at most `room` rows.
process_payment_commit_within(p, room) ==
    /\ pc[p] = "consume_commit"
    /\ LET c == ctx[p] IN
       IF UniqueHashViolated(payments, c.new.trxn_hash_key)
       THEN Reject(p, "consume", c.id, 500, "IntegrityError", None)
       ELSE /\ Len(payments) < room
            /\ payments' = Append(payments, c.new)
            /\ links' = [links EXCEPT ![c.id].used_count = c.snap.used_count + 1]
            /\ UNCHANGED now
            /\ IF c.utr # None
               THEN /\ pc' = [pc EXCEPT ![p] = "commit"]
                    /\ ctx' = [ctx EXCEPT ![p] =
                          [IdleCtx EXCEPT !.op = "consume", !.entry = "public",
                                          !.id = Len(payments) + 1, !.snap = c.new,
                                          !.new = [c.new EXCEPT !.utr_number = c.utr,
                                                                !.remarks = CustomerRemark]]]
                    /\ UNCHANGED resp
               ELSE Respond(p, [op |-> "consume", id |-> Len(payments) + 1, http |-> 200,
                                svc |-> "ok", log |-> None, data |-> c.new.trxn_hash_key])

process_payment_commit(p) == process_payment_commit_within(p, MaxPayments)

\* update_payment_link and deactivate_payment_link load the merchant's link by
\* id, or answer 404
LoadLink(p, m, op, id, new) ==
    IF id \notin DOMAIN links \/ links[id].merchant_id # m
    THEN Reject(p, op, id, 404, "link not found", None)
    ELSE /\ pc' = [pc EXCEPT ![p] = "link_commit"]
         /\ ctx' = [ctx EXCEPT ![p] = [IdleCtx EXCEPT !.op = op, !.entry = "merchant",
                                        !.id = id, !.snap = links[id], !.new = new]]
         /\ UNCHANGED <<payments, links, now, resp>>

\* update_payment_link up to its commit: setattr of every field the request
\* sets (update_data, a record over some of PaymentLinkUpdate's fields)
update_payment_link_read(p, m, id, update_data) ==
    /\ pc[p] = "idle"
    /\ LoadLink(p, m, "update_link", id,
                IF id \in DOMAIN links
                THEN [f \in DOMAIN links[id] |->
                        IF f \in DOMAIN update_data THEN update_data[f] ELSE links[id][f]]
                ELSE NoRow)

\* deactivate_payment_link up to its commit: is_active = False
deactivate_payment_link_read(p, m, id) ==
    /\ pc[p] = "idle"
    /\ LoadLink(p, m, "deactivate_link", id,
                IF id \in DOMAIN links THEN [links[id] EXCEPT !.is_active = FALSE] ELSE NoRow)

\* db.commit() and db.refresh() of the two link operations above
link_commit(p) ==
    /\ pc[p] = "link_commit"
    /\ LET c == ctx[p] IN
       /\ links' = [links EXCEPT ![c.id] = Flush(c.snap, c.new, @)]
       /\ Accept(p, c.op, c.id, 200)
    /\ UNCHANGED <<payments, now>>

\* (mutant) the passing of time expires the payments still PENDING
Tick_expiring ==
    /\ now < MaxTime
    /\ now' = now + 1
    /\ payments' = [i \in DOMAIN payments |->
                       IF payments[i].status = PENDING
                       THEN [payments[i] EXCEPT !.status = EXPIRED] ELSE payments[i]]
    /\ UNCHANGED <<links, pc, ctx, resp>>

\* the clock read by datetime.utcnow() advances
Tick ==
    /\ now < MaxTime
    /\ now' = now + 1
    /\ UNCHANGED <<payments, links, pc, ctx, resp>>

\* ------------------------------------------------------- statement matching
NoTxnAmount == -1

Abs(x) == IF x < 0 THEN -x ELSE x

\* _match_transactions: abs(payment_amount - amount) <= payment_amount * 0.01
AmountMatches(payment_amount, amount) ==
    amount = NoTxnAmount \/ 100 * Abs(payment_amount - amount) <= payment_amount

\* (mutant) the call confirms the payment and raises afterwards
StatementVerify_confirm_then_raise(rows, id, utr, user) ==
    [raised |-> TRUE, ret |-> None,
     rows |-> [rows EXCEPT ![id] = [@ EXCEPT !.status = CONFIRMED, !.utr_number = utr,
                                            !.verified_by = user,
                                            !.verification_method = "AUTO_BANK_STATEMENT"]]]

\* the call verify_utr(utr_number=, payment_id=, verified_by=, verification_method=)
\* made by _match_transactions: verify_utr takes no verification_method, so the
\* call raises TypeError before it touches the store
StatementVerify(rows, id, utr, user) ==
    [raised |-> TRUE, ret |-> None, rows |-> rows]

\* _match_transactions, inner loop: the candidates from position i on
RECURSIVE TryCandidates(_, _, _, _, _)
TryCandidates(rows, cands, i, txn, user) ==
    IF i > Len(cands) THEN [matched |-> FALSE, rows |-> rows, id |-> 0]
    ELSE LET id == cands[i] IN
         IF rows[id].status # PENDING \/ ~AmountMatches(rows[id].amount, txn.amount)
         THEN TryCandidates(rows, cands, i + 1, txn, user)
         ELSE LET v == StatementVerify(rows, id, txn.utr, user) IN
              IF ~v.raised /\ v.ret # None
              THEN [matched |-> TRUE, rows |-> v.rows, id |-> id]
              ELSE TryCandidates(v.rows, cands, i + 1, txn, user)

\* (mutant) the loop ends at the first record that no verification confirms
RECURSIVE MatchFrom_abort(_, _, _, _, _)
MatchFrom_abort(rows, cands, txns, k, user) ==
    IF k > Len(txns)
    THEN [rows |-> rows, matched_payments |-> <<>>, unmatched |-> <<>>]
    ELSE IF txns[k].utr = None
    THEN MatchFrom_abort(rows, cands, txns, k + 1, user)
    ELSE LET t == TryCandidates(rows, cands, 1, txns[k], user) IN
         IF t.matched
         THEN LET rest == MatchFrom_abort(t.rows, cands, txns, k + 1, user) IN
              [rest EXCEPT !.matched_payments = <<[payment_id |-> t.id, utr |-> txns[k].utr]>> \o @]
         ELSE [rows |-> t.rows, matched_payments |-> <<>>, unmatched |-> <<txns[k]>>]

\* _match_transactions, outer loop: the transactions from position k on
RECURSIVE MatchFrom(_, _, _, _, _)
MatchFrom(rows, cands, txns, k, user) ==
    IF k > Len(txns)
    THEN [rows |-> rows, matched_payments |-> <<>>, unmatched |-> <<>>]
    ELSE IF txns[k].utr = None
    THEN MatchFrom(rows, cands, txns, k + 1, user)
    ELSE LET t == TryCandidates(rows, cands, 1, txns[k], user)
             rest == MatchFrom(t.rows, cands, txns, k + 1, user)
         IN
         IF t.matched
         THEN [rest EXCEPT !.matched_payments = <<[payment_id |-> t.id, utr |-> txns[k].utr]>> \o @]
         ELSE [rest EXCEPT !.unmatched = <<txns[k]>> \o @]

RECURSIVE PendingIds(_, _)
PendingIds(rows, i) ==
    IF i > Len(rows) THEN <<>>
    ELSE (IF rows[i].status = PENDING THEN <<i>> ELSE <<>>) \o PendingIds(rows, i + 1)

\* content types of an uploaded file, and the substring tests of process_statement
FileTypes == {"text/csv", "application/vnd.ms-excel",
              "application/vnd.openxmlformats-officedocument.spreadsheetml.sheet",
              "text/plain", "application/pdf", "image/png"}
HasExcel(file_type) == file_type = "application/vnd.ms-excel"
HasSpreadsheet(file_type) ==
    file_type = "application/vnd.openxmlformats-officedocument.spreadsheetml.sheet"
HasPdf(file_type) == file_type = "application/pdf"

\* a row or line of a file carries a UTR
WithUtr(t) == t.utr # None

\* _extract_transactions_from_dataframe on the rows of a csv or excel sheet
\* that has a UTR column: a row without a UTR is dropped, a row without an
\* amount gives a transaction without one
_extract_transactions_from_dataframe(rows) == SelectSeq(rows, WithUtr)

NoDate == "None"
NoTransaction == [utr |-> None, amount |-> NoTxnAmount, date |-> NoDate]

\* (mutant) a later amount or date replaces the one the open record has
RECURSIVE ParseLines_overwrite(_, _, _)
ParseLines_overwrite(lines, i, current_transaction) ==
    IF i > Len(lines)
    THEN (IF current_transaction.utr # None THEN <<current_transaction>> ELSE <<>>)
    ELSE LET line == lines[i]
             closed == IF line.utr # None /\ current_transaction.utr # None
                       THEN <<current_transaction>> ELSE <<>>
             c1 == IF line.utr # None THEN [NoTransaction EXCEPT !.utr = line.utr]
                   ELSE current_transaction
             c2 == IF line.amount # NoTxnAmount /\ c1.utr # None
                   THEN [c1 EXCEPT !.amount = line.amount] ELSE c1
             c3 == IF line.date # NoDate /\ c2.utr # None
                   THEN [c2 EXCEPT !.date = line.date] ELSE c2
         IN closed \o ParseLines_overwrite(lines, i + 1, c3)

\* _parse_text, the loop over the lines from position i on.  A line is what
\* the three patterns find in it: the UTR token, the amount (as the float it
\* is converted to) and the date, each possibly absent.
RECURSIVE ParseLines(_, _, _)
ParseLines(lines, i, current_transaction) ==
    IF i > Len(lines)
    THEN (IF current_transaction.utr # None THEN <<current_transaction>> ELSE <<>>)
    ELSE LET line == lines[i]
             closed == IF line.utr # None /\ current_transaction.utr # None
                       THEN <<current_transaction>> ELSE <<>>
             c1 == IF line.utr # None THEN [NoTransaction EXCEPT !.utr = line.utr]
                   ELSE current_transaction
             c2 == IF line.amount # NoTxnAmount /\ c1.utr # None /\ c1.amount = NoTxnAmount
                   THEN [c1 EXCEPT !.amount = line.amount] ELSE c1
             c3 == IF line.date # NoDate /\ c2.utr # None /\ c2.date = NoDate
                   THEN [c2 EXCEPT !.date = line.date] ELSE c2
         IN closed \o ParseLines(lines, i + 1, c3)

\* (mutant) _parse_text with the overwriting loop
_parse_text_overwrite(lines) == ParseLines_overwrite(lines, 1, NoTransaction)

\* BankStatementProcessor._parse_text
_parse_text(lines) == ParseLines(lines, 1, NoTransaction)

\* _parse_pdf: a placeholder that returns no transaction whatever the file holds
_parse_pdf(content) == <<>>

\* process_statement's choice of parser; content is the sequence of rows (csv,
\* excel) or lines (plain text) the file holds
ParseStatement(file_type, content) ==
    IF file_type = "text/csv"
        THEN [parsed |-> TRUE, transactions |-> _extract_transactions_from_dataframe(content)]
    ELSE IF HasExcel(file_type) \/ HasSpreadsheet(file_type)
        THEN [parsed |-> TRUE, transactions |-> _extract_transactions_from_dataframe(content)]
    ELSE IF file_type = "text/plain" THEN [parsed |-> TRUE, transactions |-> _parse_text(content)]
    ELSE IF HasPdf(file_type) THEN [parsed |-> TRUE, transactions |-> _parse_pdf(content)]
    ELSE [parsed |-> FALSE, transactions |-> <<>>]

\* BankStatementProcessor.process_statement: its result and the rows it leaves
process_statement(rows, file_type, content, user) ==
    LET t == ParseStatement(file_type, content) IN
    IF ~t.parsed
    THEN [rows |-> rows,
          result |-> [success |-> FALSE, error |-> <<"Unsupported file type", file_type>>,
                      matches |-> 0]]
    ELSE LET m == MatchFrom(rows, PendingIds(rows, 1), t.transactions, 1, user) IN
         [rows |-> m.rows,
          result |-> [success |-> TRUE, total_transactions |-> Len(t.transactions),
                      matches |-> Len(m.matched_payments),
                      matched_payments |-> m.matched_payments,
                      unmatched_transactions |-> m.unmatched]]

\* upload_bank_statement up to the end of `await file.read()`: the content
\* type and the content of the uploaded file are in hand
upload_bank_statement_read(p, file_type, content) ==
    /\ pc[p] = "idle"
    /\ pc' = [pc EXCEPT ![p] = "statement"]
    /\ ctx' = [ctx EXCEPT ![p] = [IdleCtx EXCEPT !.op = "statement", !.entry = "admin",
                                   !.info = <<file_type, content>>]]
    /\ UNCHANGED <<payments, links, now, resp>>

\* upload_bank_statement: process_statement; a failed result is raised as
\* HTTPException(400) inside the endpoint's try block, whose handler turns
\* every exception into a 500.  data is process_statement's result, of which
\* the body shows total_transactions, matches, matched_payments and the
\* number of unmatched_transactions.
upload_bank_statement(p) ==
    /\ pc[p] = "statement"
    /\ LET r == process_statement(payments, ctx[p].info[1], ctx[p].info[2], UserOf(p)) IN
       /\ payments' = r.rows
       /\ Respond(p, [op |-> "statement", id |-> 0,
                      http |-> IF r.result.success THEN 200 ELSE 500,
                      svc |-> IF r.result.success THEN "ok" ELSE "Unsupported file type",
                      log |-> None, data |-> r.result])
    /\ UNCHANGED <<links, now>>

\* ------------------------------------------------------------ specifications
OptRemarks == AdminRemarks \cup {None}

\* statements of one record, with or without a UTR and an amount (longer
\* statements are uploaded under SpecStmt)
TxnSet == [utr : Utrs \cup {None}, amount : {NoTxnAmount, 500}]
Statements == {<<t>> : t \in TxnSet}

\* the reconciliation operations of handler slot p on payment id
Reconcile(p, id) ==
    \/ \E utr \in Utrs : verify_utr_read(p, "payments", id, utr, None)
    \/ \E utr \in Utrs, r \in OptRemarks : verify_utr_read(p, "admin", id, utr, r)
    \/ \E utr \in Utrs : verify_payment_read(p, id, utr)
    \/ \E r \in AdminRemarks : decline_payment_read(p, id, r)
    \/ \E utr \in Utrs : submit_utr_read(p, id, utr)
    \/ Commit(p)
    \/ admin_remarks_commit(p)
    \/ \E o \in CallbackOutcomes : send_callback_notification(p, o)
    \/ \E txns \in Statements : upload_bank_statement_read(p, "text/csv", txns)
    \/ upload_bank_statement(p)
    \/ Return(p)

\* one deposit request, repeated at will, and every reconciliation operation
Step(p) ==
    \/ create_payment_request(p, "m1", DEPOSIT, <<"r1">>, 500, "none")
    \/ \E id \in PaymentIds : Reconcile(p, id)

\* concurrent handlers
Next == \E p \in Procs : Step(p)

Spec == Init /\ [][Next]_vars

\* one handler at a time: each request runs to its response before the next
NextSeq == Step(1)

SpecSeq == Init /\ [][NextSeq]_vars

LinkAmounts == {NoAmount, 500}
CustomAmounts == {NoAmount, 600}

\* the merchant API's creation requests; each is one transaction, so one
\* handler slot shows every interleaving of them
NextCreate ==
    \/ \E m \in Merchants, r \in Refs, b \in BankInfos :
         \E a \in DepositAmounts(m) : create_payment_request(1, m, DEPOSIT, r, a, b)
    \/ \E m \in Merchants, r \in Refs, b \in BankInfos :
         \E a \in WithdrawalAmounts(m) : create_payment_request(1, m, WITHDRAWAL, r, a, b)
    \/ Return(1)

SpecCreate == Init /\ [][NextCreate]_vars

\* the first code _generate_unique_code finds unused
FreshCode == CHOOSE c \in Codes : \A i \in DOMAIN links : links[i].unique_code # c

\* payment links: creation on one slot, consumption on every slot, next to
\* one deposit and one withdrawal request of the merchant API
NextLink ==
    \/ create_payment_request(1, "m1", DEPOSIT, <<"r1">>, 500, "none")
    \/ create_payment_request(1, "m1", WITHDRAWAL, <<"r1">>, 1000, "full")
    \/ \E a \in LinkAmounts, t \in PaymentType, mu \in {0, 1} :
         create_payment_link(1, "m1", FreshCode, a, t, 0, mu)
    \/ \E p \in Procs :
         \/ \E code \in {"L1", "L2"}, ca \in CustomAmounts, utr \in {None, "U1"}, tok \in Tokens :
              process_public_payment_read(p, code, ca, UPI, utr, tok)
         \/ process_payment_commit(p)
         \/ Commit(p)
         \/ Return(p)

SpecLink == Init /\ [][NextLink]_vars

\* the use cap of one payment link: the merchant (slot 1) creates, updates
\* and deactivates the link, customers consume it on every slot, time passes
CapTokens == {"t1", "t2", "t3"}
LinkUpdates == {[max_uses |-> 1], [expires_at |-> 1]}

\* the merchant's requests on the link, on slot 1
MerchantStep ==
    \/ \E e \in {0, 2}, mu \in {1, 2} :
         create_payment_link(1, "m1", FreshCode, 500, DEPOSIT, e, mu)
    \/ \E u \in LinkUpdates : update_payment_link_read(1, "m1", 1, u)
    \/ deactivate_payment_link_read(1, "m1", 1)
    \/ link_commit(1)

\* a customer's consume on slot p
ConsumeStep(p) ==
    \/ \E tok \in CapTokens : process_public_payment_read(p, "L1", NoAmount, UPI, None, tok)
    \/ process_payment_commit_within(p, MaxConsumes)
    \/ Return(p)

NextCap ==
    \/ MerchantStep
    \/ \E p \in Procs : ConsumeStep(p)
    \/ Tick

SpecCap == Init /\ [][NextCap]_vars

\* the same requests served one at a time
NextCapSeq ==
    \/ MerchantStep
    \/ ConsumeStep(1)
    \/ Tick

SpecCapSeq == Init /\ [][NextCapSeq]_vars

\* statement upload on one slot: deposits of 1000 and 1050, a manual
\* confirmation, and files of every content type with up to two records
StmtAmounts == {1000, 1050}
StmtTxns == [utr : Utrs \cup {None}, amount : {NoTxnAmount, 1000}]
StmtContents == {<<>>} \cup {<<t>> : t \in StmtTxns} \cup {<<t, u>> : t, u \in StmtTxns}

\* the same records as the lines of a text file, one record a line, undated
AsLines(c) == [k \in DOMAIN c |-> [utr |-> c[k].utr, amount |-> c[k].amount, date |-> NoDate]]

NextStmt ==
    \/ \E r \in Refs, a \in StmtAmounts : create_payment_request(1, "m1", DEPOSIT, r, a, "none")
    \/ \E id \in PaymentIds : verify_utr_read(1, "admin", id, "U2", None)
    \/ Commit(1)
    \/ \E ft \in FileTypes, c \in StmtContents :
         upload_bank_statement_read(1, ft, IF ft = "text/plain" THEN AsLines(c) ELSE c)
    \/ upload_bank_statement(1)
    \/ Return(1)

SpecStmt == Init /\ [][NextStmt]_vars

\* free-text statements: what the three patterns of _parse_text find in each
\* line (a UTR token, an amount, a date, each possibly absent), up to MaxLines
\* lines, uploaded as text/plain
TextLines == [utr : Utrs \cup {None}, amount : {NoTxnAmount, 1000, 2000},
              date : {NoDate, "d1", "d2"}]
TextContents == UNION {[1..n -> TextLines] : n \in 0..MaxLines}

NextParse ==
    \/ \E c \in TextContents : upload_bank_statement_read(1, "text/plain", c)
    \/ upload_bank_statement(1)
    \/ Return(1)

SpecParse == Init /\ [][NextParse]_vars

\* the life of a payment, one request at a time: a deposit request or a
\* payment through a link creates it, every reconciliation operation may act
\* on it, and time passes
NextLife ==
    \/ create_payment_request(1, "m1", DEPOSIT, <<"r1">>, 500, "none")
    \/ \E id \in PaymentIds :
         \/ \E r \in OptRemarks : verify_utr_read(1, "admin", id, "U1", r)
         \/ verify_payment_read(1, id, "U1")
         \/ decline_payment_read(1, id, "R1")
         \/ submit_utr_read(1, id, "U2")
    \/ Commit(1)
    \/ admin_remarks_commit(1)
    \/ upload_bank_statement_read(1, "text/csv", <<[utr |-> "U1", amount |-> 500]>>)
    \/ upload_bank_statement(1)
    \/ create_payment_link(1, "m1", FreshCode, 500, DEPOSIT, 2, 0)
    \/ \E tok \in Tokens : process_public_payment_read(1, "L1", NoAmount, UPI, None, tok)
    \/ process_payment_commit(1)
    \/ Return(1)
    \/ Tick

SpecLife == Init /\ [][NextLife]_vars

\* transitions and their notification, one request at a time: deposits of a
\* merchant with and of one without a callback URL, the two verify
\* endpoints, the decline endpoint and the background task
NextNotify ==
    \/ \E m \in {"m1", "m2"} : create_payment_request(1, m, DEPOSIT, <<"r1">>, 500, "none")
    \/ \E id \in PaymentIds :
         \/ verify_utr_read(1, "payments", id, "U1", None)
         \/ verify_utr_read(1, "admin", id, "U1", None)
         \/ decline_payment_read(1, id, "R1")
    \/ Commit(1)
    \/ \E o \in CallbackOutcomes : send_callback_notification(1, o)
    \/ Return(1)

SpecNotify == Init /\ [][NextNotify]_vars

\* ------------------------------------------------------------------ claims
ConfirmOps == {"verify_utr", "verify_payment"}
TransitionOps == ConfirmOps \cup {"decline_payment"}

\* the operation and the target of the request slot p is serving or has answered
CurOp(p) == IF pc[p] = "done" THEN resp[p].op ELSE ctx[p].op
CurId(p) == IF pc[p] = "done" THEN resp[p].id ELSE ctx[p].id

\* a rejection on the status-is-not-PENDING branch
AlreadyProcessed(r) ==
    \/ r.svc = "ValueError: already processed"
    \/ r.svc = "None" /\ r.log = "already processed"

\* C1: a payment's status changes only from PENDING, and only to CONFIRMED or
\* DECLINED; a status that has left PENDING never changes again.
C1_StatusTerminal ==
    [][\A id \in DOMAIN payments :
          payments'[id].status # payments[id].status
             => /\ payments[id].status = PENDING
                /\ payments'[id].status \in {CONFIRMED, DECLINED}]_vars

\* C2: of the confirm and decline calls on one payment, at most one reports
\* success; two callers never both hold a success for the same payment id.
C2_OneSuccess ==
    \A p, q \in Procs :
        (/\ p # q
         /\ resp[p].op \in TransitionOps /\ resp[q].op \in TransitionOps
         /\ resp[p].id = resp[q].id)
        => ~(resp[p].svc = "ok" /\ resp[q].svc = "ok")

\* C3: once a payment's status is not PENDING, its utr_number, verified_by and
\* verification_method never change.
C3_EvidenceFrozen ==
    [][\A id \in DOMAIN payments :
          payments[id].status # PENDING
             => /\ payments'[id].utr_number = payments[id].utr_number
                /\ payments'[id].verified_by = payments[id].verified_by
                /\ payments'[id].verification_method = payments[id].verification_method]_vars

C5_Distinguishable ==
    \A p, q \in Procs :
        (/\ resp[p].op = "verify_utr" /\ resp[p].log = "not found"
         /\ resp[q].op = "verify_utr" /\ resp[q].log = "already processed")
        => <<resp[p].http, resp[p].svc>> # <<resp[q].http, resp[q].svc>>

\* C6: a create request whose (reference, merchant, amount) is already stored
\* persists no second row and is answered with the stored payment (201 and its
\* transaction hash), not with an error.
C6_IdempotentCreate ==
    [][\A m \in Merchants, r \in Refs, b \in BankInfos, t \in PaymentType :
         \A a \in DepositAmounts(m) \cup WithdrawalAmounts(m) :
          (/\ create_payment_request(1, m, t, r, a, b)
           /\ \E i \in DOMAIN payments :
                /\ payments[i].trxn_hash_key = generate_transaction_hash(r, m, a)
                /\ payments[i].payment_type = t
                /\ payments[i].payment_method = (IF t = DEPOSIT THEN DepositMethod(b)
                                                 ELSE BANK_TRANSFER))
          => /\ payments' = payments
             /\ resp'[1].http = 201
             /\ resp'[1].data = generate_transaction_hash(r, m, a)]_vars

\* C7: no two persisted payments have the same transaction hash.
C7_UniqueHash ==
    \A i, j \in DOMAIN payments :
        i # j => payments[i].trxn_hash_key # payments[j].trxn_hash_key

\* a request with a stored hash was turned away while the API and a payment
\* link have each created a payment
C7_Witness ==
    /\ \E p \in Procs : resp[p].svc = "IntegrityError"
    /\ \E i, j \in DOMAIN payments :
          payments[i].payment_link_id = NoLink /\ payments[j].payment_link_id # NoLink

MethodConfigured(m, method) ==
    IF method = UPI THEN MerchantTable[m].upi_details ELSE MerchantTable[m].bank_details

\* C8: a deposit request at the merchant's min_deposit or max_deposit is
\* accepted (the method being configured and the request not a duplicate), and
\* one at min_deposit - 1 or max_deposit + 1 is rejected as invalid.
C8_DepositBoundary ==
    [][\A m \in Merchants, r \in Refs, b \in BankInfos :
         \A a \in DepositAmounts(m) :
          create_payment_request(1, m, DEPOSIT, r, a, b)
          => /\ (/\ a \in {MerchantTable[m].min_deposit, MerchantTable[m].max_deposit}
                 /\ MethodConfigured(m, DepositMethod(b))
                 /\ ~UniqueHashViolated(payments, generate_transaction_hash(r, m, a)))
                => resp'[1].http = 201
             /\ a \in {MerchantTable[m].min_deposit - 1, MerchantTable[m].max_deposit + 1}
                => resp'[1].http = 400]_vars

InBounds(row) ==
    LET cfg == MerchantTable[row.merchant_id] IN
    IF row.payment_type = DEPOSIT
    THEN cfg.min_deposit <= row.amount /\ row.amount <= cfg.max_deposit
    ELSE cfg.min_withdrawal <= row.amount /\ row.amount <= cfg.max_withdrawal

\* C9: every persisted payment's amount is within its merchant's bounds for
\* the payment's own type (merchant settings do not change here, so the
\* bounds are those of creation time).
C9_AmountInBounds ==
    \A i \in DOMAIN payments : InBounds(payments[i])

\* C10: a creation request answered with an error (amount out of range,
\* method not configured, withdrawal bank details missing) leaves payments and
\* links as they were; one answered with success appends exactly one row, in
\* PENDING, and changes nothing else.
C10_CreateAllOrNothing ==
    [][(pc[1] = "idle" /\ pc'[1] = "done" /\ resp'[1].op = "create")
          => IF resp'[1].http = 201
             THEN /\ Len(payments') = Len(payments) + 1
                  /\ SubSeq(payments', 1, Len(payments)) = payments
                  /\ payments'[Len(payments')].status = PENDING
                  /\ links' = links
             ELSE payments' = payments /\ links' = links]_vars

\* an invalid request has been answered with an error while a row created by
\* an earlier, valid request is stored
C10_Witness ==
    /\ Len(payments) = 1
    /\ payments[1].status = PENDING
    /\ resp[1].op = "create" /\ resp[1].http = 400

\* the persisted payments created through link l
LinkPayments(rows, l) == {i \in DOMAIN rows : rows[i].payment_link_id = l}

\* all requests have been answered
Quiescent == \A p \in Procs : pc[p] \in {"idle", "done"}

\* C11: the consumes of a capped link create no more payments than its cap
\* (each insert leaves the link with at most max_uses payments: of
\* max_uses + k concurrent consumes, k are turned away), and once the
\* requests are answered a link that carries max_uses payments has
\* used_count = max_uses.
C11_CapNotOvershot ==
    [][\A l \in DOMAIN links :
          links[l].max_uses # 0
          => /\ Cardinality(LinkPayments(payments', l)) > Cardinality(LinkPayments(payments, l))
                => Cardinality(LinkPayments(payments', l)) <= links[l].max_uses
             /\ (Quiescent' /\ Cardinality(LinkPayments(payments', l)) = links'[l].max_uses)
                => links'[l].used_count = links'[l].max_uses]_vars

\* C12: a link's used_count equals the number of persisted payments created
\* through it.
C12_UsedCountIsPaymentCount ==
    \A l \in DOMAIN links : links[l].used_count = Cardinality(LinkPayments(payments, l))

\* C13: no step lowers a link's used_count (a created link starts at 0).
C13_UsedCountMonotone ==
    [][/\ \A l \in DOMAIN links : links'[l].used_count >= links[l].used_count
       /\ \A l \in DOMAIN links' \ DOMAIN links : links'[l].used_count = 0]_vars

\* C14: at the step that inserts a payment through a link, the link as
\* stored is active, not expired and below its use cap.
C14_InsertOnlyThroughUsableLink ==
    [][\A p \in Procs :
          (/\ pc[p] = "consume_commit"
           /\ pc'[p] # "consume_commit"
           /\ Len(payments') = Len(payments) + 1)
          => validate_payment_link(links[ctx[p].id], now) = "ok"]_vars

\* the three checks of a link at time t, each on its own
LinkActive(link) == link.is_active
LinkUnexpired(link, t) == link.expires_at = 0 \/ ~(link.expires_at < t)
LinkBelowCap(link) == link.max_uses = 0 \/ link.used_count < link.max_uses

\* the reason of the first failing check, in the order active, expiry, cap
FirstFailing(link, t, r) ==
    /\ ~LinkActive(link) => r = "inactive"
    /\ (LinkActive(link) /\ ~LinkUnexpired(link, t)) => r = "expired"
    /\ (LinkActive(link) /\ LinkUnexpired(link, t) /\ ~LinkBelowCap(link)) => r = "usage limit"

C16_FixedAmountWins ==
    \A i \in DOMAIN payments :
        (/\ payments[i].payment_link_id # NoLink
         /\ links[payments[i].payment_link_id].amount # NoAmount)
        => payments[i].amount = links[payments[i].payment_link_id].amount

\* content types whose parser reads the records of the file
InterpretedTypes == FileTypes \ {"application/pdf", "image/png"}

\* the PENDING payments whose amount is within 1% (of the payment's amount)
\* of the amount a statement record carries
Candidates(rows, txn) ==
    {i \in DOMAIN rows :
        /\ rows[i].status = PENDING
        /\ 100 * rows[i].amount - rows[i].amount <= 100 * txn.amount
        /\ 100 * txn.amount <= 100 * rows[i].amount + rows[i].amount}

Listed(result, i) ==
    \E k \in DOMAIN result.matched_payments : result.matched_payments[k].payment_id = i

\* slot p processes the statement it has read, of content type FileType(p)
\* and content Content(p)
Processing(p) == pc[p] = "statement" /\ pc'[p] = "done"
FileType(p) == ctx[p].info[1]
Content(p) == ctx[p].info[2]
OneRecord(c) == Len(c) = 1 /\ c[1].utr # None /\ c[1].amount # NoTxnAmount
UtrsOf(seq) == [k \in DOMAIN seq |-> seq[k].utr]

\* C17: a statement of one record carrying a UTR and an amount, uploaded while
\* exactly one PENDING payment is within 1% of that amount, confirms that
\* payment with the record's UTR and lists it as matched; every other payment
\* (the 1050 payment for a record of 1000) is left as it was and is not listed.
C17_ExactAmountMatch ==
    [][\A p \in Procs :
          (/\ Processing(p)
           /\ FileType(p) \in InterpretedTypes
           /\ OneRecord(Content(p))
           /\ Cardinality(Candidates(payments, Content(p)[1])) = 1)
          => /\ resp'[p].data.success
             /\ \A i \in DOMAIN payments :
                   IF i \in Candidates(payments, Content(p)[1])
                   THEN /\ payments'[i].status = CONFIRMED
                        /\ payments'[i].utr_number = Content(p)[1].utr
                        /\ Listed(resp'[p].data, i)
                   ELSE /\ payments'[i] = payments[i]
                        /\ ~Listed(resp'[p].data, i)]_vars

\* C18: a statement record that two or more PENDING payments match equally
\* well confirms none of them and is reported as ambiguous, an outcome of its
\* own that is not the no-match report.
C18_AmbiguousRefused ==
    [][\A p \in Procs :
          (/\ Processing(p)
           /\ FileType(p) \in InterpretedTypes
           /\ OneRecord(Content(p))
           /\ Cardinality(Candidates(payments, Content(p)[1])) >= 2)
          => /\ payments' = payments
             /\ resp'[p].data.success
             /\ "ambiguous_transactions" \in DOMAIN resp'[p].data
             /\ \A k \in DOMAIN resp'[p].data.unmatched_transactions :
                   resp'[p].data.unmatched_transactions[k].utr # Content(p)[1].utr]_vars

\* C19: a file of a content type the processor cannot interpret is answered
\* with a failure that names the content type, and a successful result with
\* zero transactions comes only from an interpreted format whose content
\* holds no record with a UTR.
C19_UnsupportedFails ==
    [][\A p \in Procs :
          Processing(p)
          => /\ FileType(p) \notin InterpretedTypes
                => /\ ~resp'[p].data.success
                   /\ resp'[p].data.error = <<"Unsupported file type", FileType(p)>>
             /\ (resp'[p].data.success /\ resp'[p].data.total_transactions = 0)
                => (/\ FileType(p) \in InterpretedTypes
                    /\ SelectSeq(Content(p), WithUtr) = <<>>)]_vars

\* C20: whatever happens to the verification of a record's candidates, the
\* processing of an interpreted statement ends with a successful result and
\* no error status, every record with a UTR is reported (matched or
\* unmatched), and the records no verification confirmed are the unmatched
\* report, in statement order, the later ones included.
C20_RecordFailureContained ==
    [][\A p \in Procs :
          (Processing(p) /\ FileType(p) \in InterpretedTypes)
          => /\ resp'[p].http = 200
             /\ resp'[p].data.success
             /\ Len(resp'[p].data.matched_payments)
                   + Len(resp'[p].data.unmatched_transactions)
                      = Len(SelectSeq(Content(p), WithUtr))
             /\ resp'[p].data.matched_payments = <<>>
                   => UtrsOf(resp'[p].data.unmatched_transactions)
                         = UtrsOf(SelectSeq(Content(p), WithUtr))]_vars

\* a statement of two records has been processed while a PENDING payment was
\* a candidate of both: the verification of the first record failed, and both
\* records are in the unmatched report
C20_Witness ==
    /\ resp[1].op = "statement" /\ resp[1].http = 200
    /\ resp[1].data.success
    /\ Len(resp[1].data.unmatched_transactions) = 2
    /\ \E i \in DOMAIN payments :
          /\ payments[i].status = PENDING
          /\ \A k \in 1..2 :
                AmountMatches(payments[i].amount, resp[1].data.unmatched_transactions[k].amount)

EvidenceFields == {"status", "utr_number", "verified_by", "verification_method"}
CallbackFields == {"callback_sent", "response_data"}

\* C21: the step of send_callback_notification, whether the callback is
\* answered, fails or is skipped, changes no field of any payment other than
\* callback_sent and response_data of the notified payment; in particular
\* status, utr_number, verified_by and verification_method stay as they were.
C21_CallbackFrame ==
    [][\A p \in Procs :
          (pc[p] = "callback" /\ pc'[p] # "callback")
          => /\ DOMAIN payments' = DOMAIN payments
             /\ \A i \in DOMAIN payments :
                   \A f \in DOMAIN payments[i] :
                      payments'[i][f] # payments[i][f]
                      => (i = ctx[p].id /\ f \in CallbackFields)
             /\ \A f \in EvidenceFields :
                   payments'[ctx[p].id][f] = payments[ctx[p].id][f]]_vars

\* a callback has failed and one has been answered or skipped, and the
\* payments they were about are still CONFIRMED
C21_Witness ==
    /\ \E i \in DOMAIN payments :
          /\ payments[i].status = CONFIRMED
          /\ payments[i].response_data = "callback_error"
          /\ ~payments[i].callback_sent
    /\ \E j \in DOMAIN payments :
          /\ payments[j].status = CONFIRMED
          /\ payments[j].response_data # "callback_error"
    /\ pc[1] = "done" /\ resp[1].op = "verify_utr" /\ resp[1].svc = "ok"

\* C25: a request that has moved a payment out of PENDING (a confirm through
\* either verify endpoint, or a decline) does not finish before the
\* notification for that payment has been attempted.
C25_TransitionNotified ==
    [][\A p \in Procs :
          (/\ pc[p] # "done" /\ pc'[p] = "done"
           /\ resp'[p].op \in TransitionOps /\ resp'[p].svc = "ok")
          => pc[p] = "callback"]_vars

\* the lines of a free-text statement that carry a UTR token, the lines a line
\* opens a record for (up to the next line with a UTR token), and the first
\* amount and date found there
UtrPos(c) == {i \in DOMAIN c : c[i].utr # None}
KthUtrPos(c, k) == CHOOSE i \in UtrPos(c) : Cardinality({j \in UtrPos(c) : j < i}) = k - 1
OpenSpan(c, i) == {j \in DOMAIN c : j >= i /\ \A u \in UtrPos(c) : u > i => j < u}
FirstAmount(c, i) ==
    LET has == {j \in OpenSpan(c, i) : c[j].amount # NoTxnAmount} IN
    IF has = {} THEN NoTxnAmount
    ELSE c[CHOOSE j \in has : \A h \in has : j <= h].amount
FirstDate(c, i) ==
    LET has == {j \in OpenSpan(c, i) : c[j].date # NoDate} IN
    IF has = {} THEN NoDate
    ELSE c[CHOOSE j \in has : \A h \in has : j <= h].date

\* C22: the free-text parser yields as many records as the text has lines
\* with a UTR token, in line order, each with the UTR of its line; a record's
\* amount and date are the first ones found from its line up to the next line
\* with a UTR token (later ones do not replace them), and an amount or date on
\* a line before the first UTR token belongs to no record.
C22_TextRecords ==
    [][\A p \in Procs :
          (Processing(p) /\ FileType(p) = "text/plain")
          => LET c == Content(p)
                 d == resp'[p].data
             IN /\ d.total_transactions = Cardinality(UtrPos(c))
                /\ d.matched_payments = <<>>
                   => /\ Len(d.unmatched_transactions) = Cardinality(UtrPos(c))
                      /\ \A k \in DOMAIN d.unmatched_transactions :
                            LET i == KthUtrPos(c, k) IN
                            d.unmatched_transactions[k]
                               = [utr |-> c[i].utr, amount |-> FirstAmount(c, i),
                                  date |-> FirstDate(c, i)]]_vars

\* a text of two UTR lines and further lines has been parsed into two records:
\* the first kept its amount and found no date, the second found a date and
\* no amount
C22_Witness ==
    \E p \in Procs :
       /\ pc[p] = "done" /\ resp[p].op = "statement" /\ resp[p].data.success
       /\ resp[p].data.total_transactions = 2
       /\ resp[p].data.unmatched_transactions
             = <<[utr |-> "U2", amount |-> 1000, date |-> NoDate],
                 [utr |-> "U1", amount |-> NoTxnAmount, date |-> "d1"]>>

VerificationMethods == {"MANUAL", "AUTO_BANK_STATEMENT"}

C24_EveryRecordReportedOnce ==
    [][\A p \in Procs :
          (Processing(p) /\ FileType(p) \in InterpretedTypes)
          => LET d == resp'[p].data IN
             /\ d.matches + Len(d.unmatched_transactions) = Cardinality(UtrPos(Content(p)))
             /\ d.matches = Len(d.matched_payments)
             /\ d.matches = Cardinality({i \in DOMAIN payments :
                                            /\ payments[i].status = PENDING
                                            /\ payments'[i].status = CONFIRMED})]_vars

\* a statement whose one record with a UTR and an amount had a PENDING payment
\* of that amount to try has been processed
C24_Witness ==
    /\ pc[1] = "done" /\ resp[1].op = "statement" /\ resp[1].data.success
    /\ resp[1].data.total_transactions = 1
    /\ resp[1].data.matches + Len(resp[1].data.unmatched_transactions) = 1
    /\ \E i \in DOMAIN payments :
          /\ payments[i].amount = 1000
          /\ payments[i].status \in {PENDING, CONFIRMED}
    /\ \E i \in DOMAIN payments : payments[i].amount = 1050

\* C27: no two CONFIRMED payments carry the same utr_number.
C27_UtrConfirmsOnce ==
    \A i, j \in DOMAIN payments :
        (/\ i # j
         /\ payments[i].status = CONFIRMED
         /\ payments[j].status = CONFIRMED)
        => payments[i].utr_number # payments[j].utr_number

C29_SubmitUtrFrame ==
    [][\A p \in Procs :
          /\ (pc[p] = "idle" /\ pc'[p] = "commit" /\ ctx'[p].op = "submit_utr")
             => /\ payments[ctx'[p].id].status = PENDING
                /\ payments' = payments
          /\ (pc[p] = "commit" /\ pc'[p] = "done" /\ ctx[p].op = "submit_utr")
             => /\ DOMAIN payments' = DOMAIN payments
                /\ \A i \in DOMAIN payments : i # ctx[p].id => payments'[i] = payments[i]
                /\ \A f \in DOMAIN payments[ctx[p].id] \ {"utr_number", "remarks"} :
                      payments'[ctx[p].id][f] = payments[ctx[p].id][f]
                /\ payments'[ctx[p].id].utr_number = ctx[p].new.utr_number
                /\ payments'[ctx[p].id].remarks = CustomerRemark
          /\ (pc[p] = "idle" /\ pc'[p] = "done" /\ resp'[p].op = "submit_utr")
             => /\ resp'[p].http = 400
                /\ resp'[p].id \notin DOMAIN payments
                      \/ payments[resp'[p].id].status # PENDING
                /\ payments' = payments]_vars

\* a customer's UTR has been stored on a payment that is still PENDING and
\* unverified
C29_Witness ==
    \E p \in Procs :
       /\ pc[p] = "done" /\ resp[p].op = "submit_utr" /\ resp[p].svc = "ok"
       /\ payments[resp[p].id].status = PENDING
       /\ payments[resp[p].id].utr_number \in Utrs
       /\ payments[resp[p].id].remarks = CustomerRemark
       /\ payments[resp[p].id].verified_by = None
       /\ payments[resp[p].id].verification_method = None

\* C30: when one request runs at a time, every link with a use cap has
\* used_count <= max_uses, also after update_payment_link has changed max_uses.
C30_CapCoversUses ==
    \A l \in DOMAIN links :
        links[l].max_uses # 0 => links[l].used_count <= links[l].max_uses

\* C26: no payment ever has status EXPIRED: a step leaves a PENDING payment
\* PENDING or makes it CONFIRMED or DECLINED, and the passing of time changes
\* no payment.
C26_NeverExpired ==
    [][/\ \A i \in DOMAIN payments' :
             /\ payments'[i].status # EXPIRED
             /\ (i \in DOMAIN payments /\ payments[i].status = PENDING)
                => payments'[i].status \in {PENDING, CONFIRMED, DECLINED}
       /\ now' # now => payments' = payments]_vars

\* the clock has passed the expiry of the payment link while a payment is
\* still PENDING next to one that was confirmed or declined
C26_Witness ==
    /\ now > 2
    /\ \E i \in DOMAIN payments : payments[i].status = PENDING
    /\ \E j \in DOMAIN payments : payments[j].status \in {CONFIRMED, DECLINED}
====
